---------------------------- MODULE Spec2Model ----------------------------
(***************************************************************************)
(* circmark: a text notation for circuit topology, parsed with nom         *)
(* combinators (circuit.rs, twoport.rs), measured bottom-up (layout.rs)    *)
(* and placed top-down onto a Drawer (draw.rs).                            *)
(*                                                                         *)
(* Texts are sequences of one-character strings.  A parser is an operator  *)
(* from a text to a nom IResult: Ok(rest, value), the recoverable          *)
(* Err::Error, or the hard Err::Failure.                                   *)
(***************************************************************************)
EXTENDS Integers, Sequences, FiniteSets, TLC

VARIABLES
  input,      \* the text handed to a parser
  parser,     \* the parser applied to it
  result,     \* that parser's IResult
  pc,         \* "start", "parsed", "measured", "placed"
  tree,       \* the SubCircuit measured and placed
  natural,    \* its layout_size
  allocated,  \* the size the caller gives draw
  ctx,        \* the Context the caller holds and gives draw
  calls,      \* the draw calls of the last placement, in call order
  drawer,     \* the primitives the Drawer has received, in order
  runs        \* the primitives of each placement so far

vars == <<input, parser, result, pc, tree, natural, allocated, ctx, calls, drawer, runs>>

parseVars == <<input, parser, result>>

drawVars == <<tree, natural, allocated, ctx, calls, drawer, runs>>

-----------------------------------------------------------------------------
(* nom's results and its leaf parsers                                      *)

Ok(rest, val) == [st |-> "Ok", rest |-> rest, val |-> val]

Error == [st |-> "Error"]

Failure(msg) == [st |-> "Failure", msg |-> msg]

\* The characters character::complete::alphanumeric1 accepts, among those the
\* texts of this model are written in.
AlphaNumeric ==
  {"R", "C", "V", "L", "Z", "I", "O", "1", "2", "3", "4", "5", "q",
   "t", "w", "o", "p", "r"}

DropFirst(n, s) == SubSeq(s, n + 1, Len(s))

\* bytes::complete::tag
tag(t, i) ==
  IF Len(i) >= Len(t) /\ SubSeq(i, 1, Len(t)) = t
    THEN Ok(DropFirst(Len(t), i), t)
    ELSE Error

RECURSIVE AlnumRun(_)
AlnumRun(i) ==
  IF i # <<>> /\ Head(i) \in AlphaNumeric THEN 1 + AlnumRun(Tail(i)) ELSE 0

\* an identifier parser that takes digits only
RECURSIVE DigitRun(_)
DigitRun(i) ==
  IF i # <<>> /\ Head(i) \in {"1", "2", "3", "4", "5"} THEN 1 + DigitRun(Tail(i)) ELSE 0

digit1(i) ==
  IF DigitRun(i) = 0 THEN Error ELSE Ok(DropFirst(DigitRun(i), i), SubSeq(i, 1, DigitRun(i)))

\* character::complete::alphanumeric1: the maximal run, of at least one character
alphanumeric1(i) ==
  LET n == AlnumRun(i)
  IN  IF n = 0 THEN Error ELSE Ok(DropFirst(n, i), SubSeq(i, 1, n))

-----------------------------------------------------------------------------
(* circuit.rs: the tree                                                    *)

ElementOf(kind, id) == [kind |-> kind, id |-> id]

Open == [kind |-> "Open"]

SubElement(e) == [type |-> "Element", element |-> e]

SubGroup(g) == [type |-> "Group", group |-> g]

Single(c) == [type |-> "Single", circuit |-> c]

Series(l, r) == [type |-> "Series", left |-> l, right |-> r]

Parallel(l, r) == [type |-> "Parallel", left |-> l, right |-> r]

\* an into() that boxes every group
IntoKeepsSingle(g) == SubGroup(g)

\* impl Into<SubCircuit> for SubCircuitGroup
Into(g) == IF g.type = "Single" THEN g.circuit ELSE SubGroup(g)

TwoportLinkOf(kind, c) == [link |-> kind, circuit |-> c]

-----------------------------------------------------------------------------
(* nom's combinators, applied to results: a combinator's later parser is   *)
(* an argument that is evaluated only when the earlier result calls for it *)

\* branch::alt of two parsers run on the same text: the second is tried on
\* Err::Error only, an Err::Failure is returned as it is
alt(a, b) == IF a.st = "Error" THEN b ELSE a

\* sequence::preceded(first, alphanumeric1), given first's result
ThenAlphanumeric1(first) ==
  IF first.st # "Ok" THEN first ELSE alphanumeric1(first.rest)

\* the closing half of sequence::delimited / the second half of
\* sequence::terminated: the value is the earlier parser's, the rest the later's
KeepValue(r, close) ==
  IF close.st # "Ok" THEN close ELSE Ok(close.rest, r.val)

ThenCloseParen(r) ==
  IF r.st # "Ok" THEN r ELSE KeepValue(r, tag(<<")">>, r.rest))

-----------------------------------------------------------------------------
(* circuit.rs: the parsers                                                 *)

\* map(_, Element::t)
ElementNamed(t, a) ==
  IF a.st # "Ok" THEN a ELSE Ok(a.rest, ElementOf(t, a.val))

\* map(preceded(tag(t), alphanumeric1), Element::t)
TaggedElement(t, i) == ElementNamed(t, ThenAlphanumeric1(tag(<<t>>, i)))

\* map(tag("O"), |_| Element::Open)
OpenElement(o) == IF o.st # "Ok" THEN o ELSE Ok(o.rest, Open)

element(i) ==
  alt(TaggedElement("R", i),
  alt(TaggedElement("C", i),
  alt(TaggedElement("V", i),
  alt(TaggedElement("L", i),
  alt(TaggedElement("Z", i),
  alt(TaggedElement("I", i),
      OpenElement(tag(<<"O">>, i))))))))

RECURSIVE sub_circuit(_), sub_circuit_series(_), sub_circuit_parallel(_),
          ThenSeries(_), SeriesRight(_), ParallelRight(_), SeriesAlt(_), ParallelAlt(_)

\* a group wrapped without into()
GroupBoxed(r) == IF r.st # "Ok" THEN r ELSE Ok(r.rest, SubGroup(r.val))

\* map(_, |group| group.into())
GroupInto(r) == IF r.st # "Ok" THEN r ELSE Ok(r.rest, Into(r.val))

\* map(_, SubCircuit::Element)
ElementInto(r) == IF r.st # "Ok" THEN r ELSE Ok(r.rest, SubElement(r.val))

\* delimited's inner parser, sub_circuit_series, run on what tag("(") left
ThenSeries(first) ==
  IF first.st # "Ok" THEN first ELSE sub_circuit_series(first.rest)

\* a right operand that takes no further +
SeriesRightOperand(plus) ==
  IF plus.st # "Ok" THEN plus ELSE sub_circuit_parallel(plus.rest)

\* separated_pair's right parser, run on what the separator left
SeriesRight(plus) ==
  IF plus.st # "Ok" THEN plus ELSE sub_circuit_series(plus.rest)

ParallelRight(bars) ==
  IF bars.st # "Ok" THEN bars ELSE sub_circuit_parallel(bars.rest)

ThenTag(t, first) == IF first.st # "Ok" THEN first ELSE tag(t, first.rest)

sub_circuit(i) ==
  alt(GroupInto(ThenCloseParen(ThenSeries(tag(<<"(">>, i)))),
      ElementInto(element(i)))

\* map(separated_pair(..), |(left, right)| Series(left.into(), right.into()))
SeriesPair(left, right) ==
  IF right.st # "Ok" THEN right
  ELSE Ok(right.rest, Series(Into(left.val), Into(right.val)))

\* map(separated_pair(..), |(left, right)| Parallel(left, right.into()))
ParallelPair(left, right) ==
  IF right.st # "Ok" THEN right
  ELSE Ok(right.rest, Parallel(left.val, Into(right.val)))

\* map(sub_circuit, SubCircuitGroup::Single)
SingleOf(r) == IF r.st # "Ok" THEN r ELSE Ok(r.rest, Single(r.val))

\* sub_circuit_series, given left, the result of sub_circuit_parallel on its
\* text: alt's second branch runs sub_circuit_parallel on the same text again,
\* and the parsers are pure, so that run's result is left
SeriesAlt(left) ==
  alt(SeriesPair(left, SeriesRight(ThenTag(<<"+">>, left))), left)

\* a series whose operands are plain sub-circuits
SeriesOfSubCircuits(i) == SeriesAlt(SingleOf(sub_circuit(i)))

sub_circuit_series(i) == SeriesAlt(sub_circuit_parallel(i))

\* sub_circuit_parallel, given left, the result of sub_circuit on its text, which
\* is also the result of the run in alt's second branch
ParallelAlt(left) ==
  alt(ParallelPair(left, ParallelRight(ThenTag(<<"|", "|">>, left))), SingleOf(left))

sub_circuit_parallel(i) == ParallelAlt(sub_circuit(i))

ThenSubCircuit(first) ==
  IF first.st # "Ok" THEN first ELSE sub_circuit(first.rest)

\* map(_, TwoportLink::kind)
LinkNamed(kind, c) ==
  IF c.st # "Ok" THEN c ELSE Ok(c.rest, TwoportLinkOf(kind, c.val))

twoport_link(i) ==
  alt(LinkNamed("Series", ThenSubCircuit(tag(<<"-">>, i))),
      LinkNamed("Shunt", ThenSubCircuit(tag(<<"|">>, i))))

-----------------------------------------------------------------------------
(* twoport.rs: the chain notation of the document sections                 *)

ChainNodeOf(kind, e) == [node |-> kind, element |-> e]

Sub(nodes) == [kind |-> "Sub", chain |-> nodes]

ShuntInSubChain == "shunt within sub-chains is not supported"

RECURSIVE chain_element(_), ThenChainElement(_), series_chain_node(_),
          shunt_chain_node(_), sub_chain_node(_), ThenSubChain(_),
          many1(_, _), Many1Loop(_, _, _), Many1Step(_, _, _, _), Run(_, _),
          DelimitedSection(_)

\* map(_, ChainNode::kind)
NodeNamed(kind, e) ==
  IF e.st # "Ok" THEN e ELSE Ok(e.rest, ChainNodeOf(kind, e.val))

\* map(_, Element::Sub)
SubOf(r) == IF r.st # "Ok" THEN r ELSE Ok(r.rest, Sub(r.val))

ThenChainElement(first) ==
  IF first.st # "Ok" THEN first ELSE chain_element(first.rest)

ThenSubChain(first) ==
  IF first.st # "Ok" THEN first ELSE many1("sub_chain_node", first.rest)

\* twoport::element
chain_element(i) ==
  alt(TaggedElement("R", i),
  alt(TaggedElement("C", i),
  alt(TaggedElement("V", i),
  alt(TaggedElement("L", i),
  alt(OpenElement(tag(<<"O">>, i)),
      SubOf(ThenCloseParen(ThenSubChain(tag(<<"(">>, i)))))))))

series_chain_node(i) == NodeNamed("Series", ThenChainElement(tag(<<"-">>, i)))

shunt_chain_node(i) == NodeNamed("Shunt", ThenChainElement(tag(<<"|">>, i)))

\* a sub-chain node with no guard: either kind of node
AnyChainNode(i) == alt(series_chain_node(i), shunt_chain_node(i))

\* peek(shunt_chain_node)(input).is_ok() decides: any Err of the peek, the hard
\* one included, leads on to series_chain_node
SubChainNodeAfterPeek(peeked, i) ==
  IF peeked.st = "Ok" THEN Failure(ShuntInSubChain) ELSE series_chain_node(i)

sub_chain_node(i) == SubChainNodeAfterPeek(shunt_chain_node(i), i)

chain_node(i) == alt(series_chain_node(i), shunt_chain_node(i))

\* the parser many1 repeats
Run(f, i) ==
  CASE f = "twoport_link" -> twoport_link(i)
    [] f = "chain_node" -> chain_node(i)
    [] f = "sub_chain_node" -> sub_chain_node(i)
    [] f = "section" -> DelimitedSection(i)

\* a loop that pushes each value to the front
Many1StepPrepending(f, i, acc, r) ==
  IF r.st = "Error" THEN Ok(i, acc)
  ELSE IF r.st # "Ok" THEN r
  ELSE IF Len(r.rest) = Len(i) THEN Error
  ELSE Many1Loop(f, r.rest, <<r.val>> \o acc)

\* multi::many1: the first run's Err is many1's; a later Err::Error ends the
\* loop with what was collected, a later Err::Failure is many1's result, and a
\* run that consumed nothing is an Err::Error
Many1Step(f, i, acc, r) ==
  IF r.st = "Error" THEN Ok(i, acc)
  ELSE IF r.st # "Ok" THEN r
  ELSE IF Len(r.rest) = Len(i) THEN Error
  ELSE Many1Loop(f, r.rest, Append(acc, r.val))

Many1Loop(f, i, acc) == Many1Step(f, i, acc, Run(f, i))

Many1First(f, r) == IF r.st # "Ok" THEN r ELSE Many1Loop(f, r.rest, <<r.val>>)

\* a repetition that is content with no run at all
many0(f, i) == Many1Step(f, i, <<>>, Run(f, i))

many1(f, i) == Many1First(f, Run(f, i))

\* map(many1(sub_chain_node), |nodes| Chain(nodes))
sub_chain(i) == many1("sub_chain_node", i)

\* map(many1(chain_node), |nodes| Chain(nodes))
chain(i) == many1("chain_node", i)

-----------------------------------------------------------------------------
(* document.rs: a document of sections                                     *)

\* The characters multispace0 and multispace1 accept, among those the texts of
\* this model are written in.
Whitespace == {" ", "\n"}

RECURSIVE SpaceRun(_)
SpaceRun(i) ==
  IF i # <<>> /\ Head(i) \in Whitespace THEN 1 + SpaceRun(Tail(i)) ELSE 0

\* character::complete::multispace0: the maximal run, empty or not
multispace0(i) == Ok(DropFirst(SpaceRun(i), i), SubSeq(i, 1, SpaceRun(i)))

\* character::complete::multispace1: the maximal run, of at least one character
multispace1(i) ==
  IF SpaceRun(i) = 0 THEN Error
  ELSE Ok(DropFirst(SpaceRun(i), i), SubSeq(i, 1, SpaceRun(i)))

TwoportWord == <<"t", "w", "o", "p", "o", "r", "t">>

SectionTwoport(c) == [section |-> "Twoport", chain |-> c]

\* a header that takes any word for a kind
SectionKindOfAnyWord(word) ==
  IF word.st # "Ok" THEN word ELSE Ok(word.rest, "Twoport")

\* map_res(_, |kind| match kind { "twoport" => Ok(Twoport), other => Err(..) }):
\* the closure's Err is an Err::Error of map_res
SectionKindOf(word) ==
  IF word.st # "Ok" THEN word
  ELSE IF word.val = TwoportWord THEN Ok(word.rest, "Twoport")
  ELSE Error

section_kind(i) == SectionKindOf(ThenAlphanumeric1(tag(<<"@">>, i)))

\* terminated(section_kind, multispace1), given section_kind's result
ThenMultispace1(kind) ==
  IF kind.st # "Ok" THEN kind ELSE KeepValue(kind, multispace1(kind.rest))

\* map(twoport::chain, |chain| Section::Twoport(chain))
SectionOf(c) == IF c.st # "Ok" THEN c ELSE Ok(c.rest, SectionTwoport(c.val))

\* match kind { SectionKind::Twoport => ... }, after the ? on the header
SectionAfterHeader(header) ==
  IF header.st # "Ok" THEN header ELSE SectionOf(chain(header.rest))

section(i) == SectionAfterHeader(ThenMultispace1(section_kind(i)))

\* the closing multispace0 of delimited
ThenMultispace0(r) ==
  IF r.st # "Ok" THEN r ELSE KeepValue(r, multispace0(r.rest))

\* a section taken with no whitespace around it
SectionAlone(i) == section(i)

\* delimited(multispace0, section, multispace0)
DelimitedSection(i) == ThenMultispace0(section(multispace0(i).rest))

\* map(_, |sections| Document { sections })
DocumentOf(m) == IF m.st # "Ok" THEN m ELSE Ok(m.rest, [sections |-> m.val])

\* document::document
document_document(i) == DocumentOf(many1("section", i))

-----------------------------------------------------------------------------
(* examples/visualize.rs: draw                                             *)

\* draw's walk over the nodes reaches unreachable!: a Shunt node holds a
\* sub-chain with a node that is no Series
DrawReachesUnreachable(nodes) ==
  \E k \in 1..Len(nodes) :
    /\ nodes[k].node = "Shunt"
    /\ nodes[k].element.kind = "Sub"
    /\ \E j \in 1..Len(nodes[k].element.chain) :
         nodes[k].element.chain[j].node # "Series"

-----------------------------------------------------------------------------
(* circuit.rs: twoport and document                                        *)

\* map(_, |links| Twoport { links })
TwoportOf(m) == IF m.st # "Ok" THEN m ELSE Ok(m.rest, [links |-> m.val])

twoport(i) == TwoportOf(many1("twoport_link", i))

DocumentCircuit(c) == [doc |-> "Circuit", circuit |-> c]

DocumentTwoport(t) == [doc |-> "Twoport", twoport |-> t]

\* map(_, Document::Twoport), map(_, Document::Circuit)
TwoportInto(t) == IF t.st # "Ok" THEN t ELSE Ok(t.rest, DocumentTwoport(t.val))

CircuitInto(c) == IF c.st # "Ok" THEN c ELSE Ok(c.rest, DocumentCircuit(c.val))

document(i) ==
  IF i # <<>> /\ Head(i) \in {"|", "-"}
    THEN TwoportInto(twoport(i))
    ELSE CircuitInto(sub_circuit(i))

-----------------------------------------------------------------------------
(* layout.rs: the natural size of a tree                                   *)

SizeOf(w, h) == [w |-> w, h |-> h]

PositionOf(x, y) == [x |-> x, y |-> y]

\* an element that takes no height
ElementSizeFlat == SizeOf(200, 0)

ELEMENT_SIZE == SizeOf(200, 60)

Max(a, b) == IF a >= b THEN a ELSE b

RECURSIVE layout_size(_), GroupLayoutSize(_)


\* a layout that makes room for the label of an element
LayoutSizeByLabel(c) ==
  IF c.type = "Element"
    THEN SizeOf(ELEMENT_SIZE.w
                  + (IF c.element.kind = "Open" THEN 0 ELSE 10 * Len(c.element.id)),
                ELEMENT_SIZE.h)
    ELSE GroupLayoutSize(c.group)

\* impl Layout for SubCircuit (an Element's size is ELEMENT_SIZE)
layout_size(c) ==
  IF c.type = "Element" THEN ELEMENT_SIZE ELSE GroupLayoutSize(c.group)

\* a layout that stacks the heights of a Series as well
GroupLayoutSizeStacked(g) ==
  IF g.type = "Single" THEN layout_size(g.circuit)
  ELSE LET l == layout_size(g.left)
           r == layout_size(g.right)
       IN  IF g.type = "Series"
             THEN SizeOf(l.w + r.w, l.h + r.h)
             ELSE SizeOf(Max(l.w, r.w), l.h + r.h)

\* impl Layout for SubCircuitGroup
GroupLayoutSize(g) ==
  IF g.type = "Single" THEN layout_size(g.circuit)
  ELSE LET l == layout_size(g.left)
           r == layout_size(g.right)
       IN  IF g.type = "Series"
             THEN SizeOf(l.w + r.w, Max(l.h, r.h))
             ELSE SizeOf(Max(l.w, r.w), l.h + r.h)

-----------------------------------------------------------------------------
(* draw.rs: placement.  A draw is the sequence of its events: each draw    *)
(* call on a SubCircuit (with the path to it from the root) and each       *)
(* primitive the Drawer receives.                                          *)

\* i32 division, which truncates toward zero
Div(a, b) ==
  IF (a >= 0) = (b >= 0)
    THEN (IF a >= 0 THEN a ELSE -a) \div (IF b >= 0 THEN b ELSE -b)
    ELSE -((IF a >= 0 THEN a ELSE -a) \div (IF b >= 0 THEN b ELSE -b))

ContextOf(position, rot) == [position |-> position, rotate |-> rot]

\* Context::default()
DefaultContext == ContextOf(PositionOf(0, 0), FALSE)

\* a translation along the axes of the page, whatever the rotation
TranslateUnrotated(cx, x, y) ==
  ContextOf(PositionOf(cx.position.x + x, cx.position.y + y), cx.rotate)

\* Context::translate
translate(cx, x, y) ==
  ContextOf(IF cx.rotate
              THEN PositionOf(cx.position.x + y, cx.position.y + x)
              ELSE PositionOf(cx.position.x + x, cx.position.y + y),
            cx.rotate)

\* Context::rotate
rotate(cx) == ContextOf(cx.position, ~cx.rotate)

\* a label that shows the identifier alone
LabelOfIdentifier(e) == IF e.kind = "Open" THEN <<>> ELSE e.id

\* Element::label: format!("R{id}") and so on, format!("") for Open
label(e) ==
  CASE e.kind = "R" -> <<"R">> \o e.id
    [] e.kind = "C" -> <<"C">> \o e.id
    [] e.kind = "V" -> <<"V">> \o e.id
    [] e.kind = "L" -> <<"L">> \o e.id
    [] e.kind = "Z" -> <<"Z">> \o e.id
    [] e.kind = "I" -> <<"I">> \o e.id
    [] e.kind = "Open" -> <<>>

\* a current source drawn with the method of the letter next to it
DrawerMethodOfNeighbour(e) ==
  CASE e.kind = "R" -> "resistor"
    [] e.kind = "C" -> "capacitor"
    [] e.kind = "L" -> "inductor"
    [] e.kind = "V" -> "voltage_source"
    [] e.kind = "Z" -> "resistor"
    [] e.kind = "I" -> "resistor"
    [] e.kind = "Open" -> "open"

\* the Drawer method an element is drawn with
DrawerMethod(e) ==
  CASE e.kind = "R" -> "resistor"
    [] e.kind = "C" -> "capacitor"
    [] e.kind = "L" -> "inductor"
    [] e.kind = "V" -> "voltage_source"
    [] e.kind = "Z" -> "resistor"
    [] e.kind = "I" -> "current_source"
    [] e.kind = "Open" -> "open"

\* impl Draw for Element
ElementDraw(e, size, cx) ==
  << [ev |-> DrawerMethod(e), label |-> label(e), position |-> cx.position,
      size |-> size, rotate |-> cx.rotate] >>

wire(a, b) == [ev |-> "wire", a |-> a, b |-> b]

junction(position) == [ev |-> "junction", position |-> position]

DrawCall(c, size, cx, path) ==
  [ev |-> "draw", circuit |-> c, size |-> size, ctx |-> cx, path |-> path]

end_wire_length == 20

\* the sizes and contexts the Series arm gives its children
SeriesLeftSize(g, size) ==
  LET l == layout_size(g.left)
      r == layout_size(g.right)
  IN  SizeOf(Div(size.w * l.w, l.w + r.w), Max(l.h, r.h))

SeriesRightSize(g, size) ==
  LET l == layout_size(g.left)
      r == layout_size(g.right)
  IN  SizeOf(Div(size.w * r.w, l.w + r.w), Max(l.h, r.h))

\* a left child moved by half its own width only
SeriesLeftContextByOwnWidth(g, size, cx) ==
  translate(cx, Div(-SeriesLeftSize(g, size).w, 2), 0)

SeriesLeftContext(g, size, cx) ==
  translate(cx, Div(-size.w, 2) + Div(SeriesLeftSize(g, size).w, 2), 0)

SeriesRightContext(g, size, cx) ==
  translate(cx, Div(size.w, 2) - Div(SeriesRightSize(g, size).w, 2), 0)

\* the sizes and contexts the Parallel arm gives its children
ParallelWidth(g) ==
  Max(layout_size(g.left).w, layout_size(g.right).w) - 2 * end_wire_length

ParallelTopSize(g, size) ==
  LET t == layout_size(g.left)
      b == layout_size(g.right)
  IN  SizeOf(ParallelWidth(g), Div(size.h * t.h, t.h + b.h))

ParallelBottomSize(g, size) ==
  LET t == layout_size(g.left)
      b == layout_size(g.right)
  IN  SizeOf(ParallelWidth(g), Div(size.h * b.h, t.h + b.h))

ParallelTopContext(g, size, cx) ==
  translate(cx, 0, Div(-ParallelTopSize(g, size).h, 2))

ParallelBottomContext(g, size, cx) ==
  translate(cx, 0, Div(ParallelBottomSize(g, size).h, 2))

\* rails with their junctions halfway between the ends
ParallelWiresJoinedHalfway(g, size, cx) ==
  LET width == ParallelWidth(g)
      up    == Div(-ParallelTopSize(g, size).h, 2)
      down  == Div(ParallelBottomSize(g, size).h, 2)
  IN  << wire(translate(cx, Div(-width, 2), up).position,
              translate(cx, Div(-width, 2), down).position),
         wire(translate(cx, Div(width, 2), up).position,
              translate(cx, Div(width, 2), down).position),
         junction(translate(cx, Div(-width, 2), Div(up + down, 2)).position),
         junction(translate(cx, Div(width, 2), Div(up + down, 2)).position),
         wire(translate(cx, Div(-width, 2) - end_wire_length, 0).position,
              translate(cx, Div(-width, 2), 0).position),
         wire(translate(cx, Div(width, 2) + end_wire_length, 0).position,
              translate(cx, Div(width, 2), 0).position) >>

\* the two rails, their junctions and the two stubs of the Parallel arm
ParallelWires(g, size, cx) ==
  LET width == ParallelWidth(g)
      up    == Div(-ParallelTopSize(g, size).h, 2)
      down  == Div(ParallelBottomSize(g, size).h, 2)
  IN  << wire(translate(cx, Div(-width, 2), up).position,
              translate(cx, Div(-width, 2), down).position),
         wire(translate(cx, Div(width, 2), up).position,
              translate(cx, Div(width, 2), down).position),
         junction(translate(cx, Div(-width, 2), 0).position),
         junction(translate(cx, Div(width, 2), 0).position),
         wire(translate(cx, Div(-width, 2) - end_wire_length, 0).position,
              translate(cx, Div(-width, 2), 0).position),
         wire(translate(cx, Div(width, 2) + end_wire_length, 0).position,
              translate(cx, Div(width, 2), 0).position) >>

RECURSIVE SubCircuitDraw(_, _, _, _), GroupDraw(_, _, _, _)

\* impl Draw for SubCircuit
SubCircuitDraw(c, size, cx, path) ==
  <<DrawCall(c, size, cx, path)>> \o
  (IF c.type = "Element"
     THEN ElementDraw(c.element, size, cx)
     ELSE GroupDraw(c.group, size, cx, path))

\* impl Draw for SubCircuitGroup
GroupDraw(g, size, cx, path) ==
  CASE g.type = "Single" -> SubCircuitDraw(g.circuit, size, cx, Append(path, "single"))
    [] g.type = "Series" ->
         SubCircuitDraw(g.left, SeriesLeftSize(g, size),
                        SeriesLeftContext(g, size, cx), Append(path, "left")) \o
         SubCircuitDraw(g.right, SeriesRightSize(g, size),
                        SeriesRightContext(g, size, cx), Append(path, "right"))
    [] g.type = "Parallel" ->
         SubCircuitDraw(g.left, ParallelTopSize(g, size),
                        ParallelTopContext(g, size, cx), Append(path, "left")) \o
         SubCircuitDraw(g.right, ParallelBottomSize(g, size),
                        ParallelBottomContext(g, size, cx), Append(path, "right")) \o
         ParallelWires(g, size, cx)

IsCall(e) == e.ev = "draw"

IsPrimitive(e) == e.ev # "draw"

-----------------------------------------------------------------------------
(* draw.rs: impl Draw for Twoport.  The layout_size of a TwoportLink and   *)
(* of a Twoport is called by draw.rs and cm-to-svg.rs and defined nowhere  *)
(* in the sources: a link is taken to ask for the natural size of its      *)
(* circuit, a Shunt link for that size as it is or with its sides swapped  *)
(* (the circuit of a Shunt is drawn rotated), and a Twoport for the sum of *)
(* its links' widths by the largest of their heights.                      *)

LinkLayoutSize(link, swapped) ==
  IF link.link = "Shunt" /\ swapped
    THEN SizeOf(layout_size(link.circuit).h, layout_size(link.circuit).w)
    ELSE layout_size(link.circuit)

RECURSIVE TwoportSizeFrom(_, _, _)
TwoportSizeFrom(t, swapped, i) ==
  IF i > Len(t.links) THEN SizeOf(0, 0)
  ELSE SizeOf(LinkLayoutSize(t.links[i], swapped).w + TwoportSizeFrom(t, swapped, i + 1).w,
              Max(LinkLayoutSize(t.links[i], swapped).h, TwoportSizeFrom(t, swapped, i + 1).h))

TwoportLayoutSize(t, swapped) == TwoportSizeFrom(t, swapped, 1)

\* a wire or a junction the arm of link i hands to the Drawer; link is not an
\* argument of the call, it records the arm that made it
LinkWire(i, a, b) == [ev |-> "wire", a |-> a, b |-> b, link |-> i]

LinkJunction(i, position) == [ev |-> "junction", position |-> position, link |-> i]

LinkPath(i) == <<"link", ToString(i)>>

\* the Series arm: the circuit on the top line, a wire along the bottom line
SeriesLinkDraw(i, circuit, requested, size, cx, offset) ==
  SubCircuitDraw(circuit, requested, translate(cx, offset, Div(-size.h, 2)), LinkPath(i))
  \o <<LinkWire(i, PositionOf(offset - Div(requested.w, 2), Div(size.h, 2)),
                   PositionOf(offset + Div(requested.w, 2), Div(size.h, 2)))>>

\* a Shunt arm that marks a junction wherever it meets one neighbour
ShuntRailsJoinedAtEdges(i, left_exists, right_exists, requested, size, offset) ==
  (IF left_exists
     THEN <<LinkWire(i, PositionOf(offset - Div(requested.w, 2), Div(-size.h, 2)),
                        PositionOf(offset, Div(-size.h, 2))),
            LinkWire(i, PositionOf(offset - Div(requested.w, 2), Div(size.h, 2)),
                        PositionOf(offset, Div(size.h, 2)))>>
     ELSE <<>>)
  \o (IF right_exists
        THEN <<LinkWire(i, PositionOf(offset, Div(-size.h, 2)),
                           PositionOf(offset + Div(requested.w, 2), Div(-size.h, 2))),
               LinkWire(i, PositionOf(offset, Div(size.h, 2)),
                           PositionOf(offset + Div(requested.w, 2), Div(size.h, 2)))>>
        ELSE <<>>)
  \o (IF left_exists \/ right_exists
        THEN <<LinkJunction(i, PositionOf(offset, Div(-size.h, 2))),
               LinkJunction(i, PositionOf(offset, Div(size.h, 2)))>>
        ELSE <<>>)

\* the Shunt arm before it draws its circuit
ShuntRails(i, left_exists, right_exists, requested, size, offset) ==
  (IF left_exists
     THEN <<LinkWire(i, PositionOf(offset - Div(requested.w, 2), Div(-size.h, 2)),
                        PositionOf(offset, Div(-size.h, 2))),
            LinkWire(i, PositionOf(offset - Div(requested.w, 2), Div(size.h, 2)),
                        PositionOf(offset, Div(size.h, 2)))>>
     ELSE <<>>)
  \o (IF right_exists
        THEN <<LinkWire(i, PositionOf(offset, Div(-size.h, 2)),
                           PositionOf(offset + Div(requested.w, 2), Div(-size.h, 2))),
               LinkWire(i, PositionOf(offset, Div(size.h, 2)),
                           PositionOf(offset + Div(requested.w, 2), Div(size.h, 2)))>>
        ELSE <<>>)
  \o (IF left_exists /\ right_exists
        THEN <<LinkJunction(i, PositionOf(offset, Div(-size.h, 2))),
               LinkJunction(i, PositionOf(offset, Div(size.h, 2)))>>
        ELSE <<>>)

ShuntLinkDraw(i, n, circuit, requested, size, cx, offset) ==
  ShuntRails(i, i # 1, i # n, requested, size, offset)
  \o SubCircuitDraw(circuit, SizeOf(size.h, requested.w),
                    rotate(translate(cx, offset, 0)), LinkPath(i))

\* one turn of the loop, offset being what the turn starts with
LinkDraw(t, i, requested, size, cx, offset) ==
  IF t.links[i].link = "Series"
    THEN SeriesLinkDraw(i, t.links[i].circuit, requested, size, cx,
                        offset + Div(requested.w, 2))
    ELSE ShuntLinkDraw(i, Len(t.links), t.links[i].circuit, requested, size, cx,
                       offset + Div(requested.w, 2))

RECURSIVE TwoportLoop(_, _, _, _, _, _)
TwoportLoop(t, i, swapped, size, cx, offset) ==
  IF i > Len(t.links) THEN <<>>
  ELSE LinkDraw(t, i, LinkLayoutSize(t.links[i], swapped), size, cx, offset)
       \o TwoportLoop(t, i + 1, swapped, size, cx,
                      offset + Div(LinkLayoutSize(t.links[i], swapped).w, 2)
                             + Div(LinkLayoutSize(t.links[i], swapped).w, 2))

TwoportDraw(t, swapped, size, cx) == TwoportLoop(t, 1, swapped, size, cx, Div(-size.w, 2))

-----------------------------------------------------------------------------
(* The texts parsed: every text of the notation up to a size (its leaves,   *)
(* taken in order from LeafTexts, and its redundant pairs of parentheses), *)
(* and the texts of the tests cut short.                                   *)

MaxLeaves == 4

MaxChainSize == 4

LeafTexts ==
  << <<"R", "1">>, <<"C", "2">>, <<"L", "3">>, <<"V", "4">>,
     <<"O">>, <<"Z", "5">>, <<"I", "q">> >>

FirstLeaves == {1, 4}

Leaf(k) == LeafTexts[((k - 1) % Len(LeafTexts)) + 1]

RECURSIVE SubTexts(_, _), ParTexts(_, _), SerTexts(_, _), OpParTexts(_, _), OpSerTexts(_, _)

\* subcircuit := element | "(" series_expr ")", with n leaves from Leaf(k) on and
\* at least one operator in each pair of parentheses
SubTexts(n, k) ==
  IF n = 1 THEN {Leaf(k)}
  ELSE {<<"(">> \o x \o <<")">> : x \in OpParTexts(n, k) \cup OpSerTexts(n, k)}

OpParTexts(n, k) ==
  UNION {{a \o <<"|", "|">> \o b : a \in SubTexts(m, k), b \in ParTexts(n - m, k + m)} :
         m \in 1..(n - 1)}

ParTexts(n, k) == SubTexts(n, k) \cup OpParTexts(n, k)

OpSerTexts(n, k) ==
  UNION {{a \o <<"+">> \o b : a \in ParTexts(m, k), b \in SerTexts(n - m, k + m)} :
         m \in 1..(n - 1)}

SerTexts(n, k) == ParTexts(n, k) \cup OpSerTexts(n, k)

SubInputs == UNION {SubTexts(n, k) : n \in 1..MaxLeaves, k \in FirstLeaves}

Leaves(x) == Cardinality({j \in 1..Len(x) : x[j] \in {"R", "C", "L", "V", "O", "Z", "I"}})

RECURSIVE Wrapped(_, _)
Wrapped(x, w) == IF w = 0 THEN x ELSE <<"(">> \o Wrapped(x, w - 1) \o <<")">>

WrappedInputs ==
  UNION {{Wrapped(x, w) : w \in 1..(MaxLeaves - Leaves(x))} : x \in SubInputs}

\* chain := link+ ; link := "-" subcircuit | "|" subcircuit
RECURSIVE TwoportTexts(_, _)
TwoportTexts(n, k) ==
  UNION {{p \o c \o r : p \in {<<"-">>, <<"|">>}, c \in SubTexts(m, k),
                        r \in IF m = n THEN {<<>>} ELSE TwoportTexts(n - m, k + m)} :
         m \in 1..n}

\* the longest chains start at the later of the first leaves only
TwoportInputs ==
  UNION {TwoportTexts(n, k) : n \in 1..(MaxLeaves - 1), k \in FirstLeaves}
  \cup UNION {TwoportTexts(MaxLeaves, k) : k \in {4}}

\* the text of circuit.rs's test_twoport
TestTwoportText ==
  <<"|", "O", "-", "(", "(", "L", "1", "+", "R", "1", ")", "|", "|", "C", "1", ")", "|", "O">>

\* twoport.rs's notation: a link holds an element or a parenthesized chain; a
\* text's size counts its leaves and its pairs of parentheses
RECURSIVE ChainTexts(_, _), ChainElementTexts(_, _)
ChainElementTexts(n, k) ==
  (IF n = 1 THEN {Leaf(k)} ELSE {}) \cup
  (IF n > 1 THEN {<<"(">> \o c \o <<")">> : c \in ChainTexts(n - 1, k)} ELSE {})

ChainTexts(n, k) ==
  UNION {{p \o e \o r : p \in {<<"-">>, <<"|">>}, e \in ChainElementTexts(m, k),
                        r \in IF m = n THEN {<<>>} ELSE ChainTexts(n - m, k + m)} :
         m \in 1..n}

ChainInputs == UNION {ChainTexts(n, 1) : n \in 1..MaxChainSize}

Prefixes(x) == {SubSeq(x, 1, n) : n \in 0..Len(x)}

\* the texts of circuit.rs's test_sub_circuit and of twoport.rs's
\* test_nested_shunt_series and test_nested_shunt_shunt_not_allowed
TestSubCircuitText == <<"(", "R", "1", "+", "R", "2", "|", "|", "R", "3", ")">>

TestNestedSeriesText == <<"|", "V", "1", "|", "(", "-", "C", "1", "-", "L", "1", ")">>

TestNestedShuntText == <<"|", "V", "1", "|", "(", "-", "C", "1", "|", "L", "1", ")">>

TestTexts == {TestTwoportText, TestSubCircuitText, TestNestedSeriesText, TestNestedShuntText}

\* texts for the element parser: a first character, tag letter or not, an
\* alphanumeric run of up to MaxIdLen digits and letters, and what may follow
MaxIdLen == 2

IdChars == {"1", "q", "R"}

RECURSIVE IdRuns(_)
IdRuns(n) ==
  IF n = 0 THEN {<<>>}
  ELSE IdRuns(n - 1) \cup {Append(r, c) : r \in IdRuns(n - 1), c \in IdChars}

ElementInputs ==
  {<<t>> \o r \o e : t \in {"R", "C", "V", "L", "Z", "I", "O", "q"},
                     r \in IdRuns(MaxIdLen),
                     e \in {<<>>, <<"+">>, <<")">>}}

\* texts for document.rs: up to MaxSections sections, each the header word
\* and a chain, or another word and test_document's chain, laid out in one of the styles <<before, after the header,
\* between sections, after>>; the first style is test_document's
MaxSections == 2

SectionChains ==
  { <<"|", "V", "1">>, <<"|", "V", "2">>,
    <<"|", "V", "1", "-", "R", "1", "|", "O">>,
    <<"-", "Z", "1", "|", "I", "1">>,
    TestTwoportText, TestNestedSeriesText, TestNestedShuntText }

Styles ==
  { << <<>>, <<" ">>, <<"\n">>, <<>> >>,
    << <<"\n">>, <<"\n">>, <<" ", "\n">>, <<" ">> >>,
    << <<>>, <<>>, <<"\n">>, <<>> >> }

RECURSIVE SectionTexts(_, _)
SectionTexts(n, style) ==
  LET one == {<<"@">> \o TwoportWord \o style[2] \o c : c \in SectionChains}
             \cup {<<"@", "q">> \o style[2] \o <<"|", "V", "1">>}
  IN  IF n = 1 THEN one
      ELSE {a \o style[3] \o b : a \in one, b \in SectionTexts(n - 1, style)}

DocumentInputs ==
  UNION {{style[1] \o x \o style[4] : x \in SectionTexts(n, style)} :
         n \in 1..MaxSections, style \in Styles}

\* texts for section_kind: test_section_kind's, and words near "twoport"
HeaderWords ==
  { TwoportWord, <<"t", "w", "o", "p", "o", "r">>, TwoportWord \o <<"q">>,
    <<"q">>, <<"R", "1">>, <<>> }

HeaderInputs ==
  {<<"@">> \o w \o e : w \in HeaderWords,
                       e \in {<<>>, <<" ">>, <<"\n", "|", "V", "1">>}}
  \cup {TwoportWord}

WellFormed ==
  SubInputs \cup WrappedInputs \cup TwoportInputs \cup ChainInputs \cup TestTexts
  \cup ElementInputs \cup DocumentInputs \cup HeaderInputs

\* the texts cut short: unmatched parentheses, missing operands, empty input
Truncated == UNION {Prefixes(x) : x \in TestTexts}

Inputs == WellFormed \cup Truncated

-----------------------------------------------------------------------------
(* The program: a text is parsed by one of the parsers; the circuit of a   *)
(* parsed document is measured, and placed with a size (its natural size,  *)
(* or that stretched) and a context of the caller's.                       *)

MaxStretch == 1

Origins == {PositionOf(0, 0), PositionOf(7, -3)}

NoTree == [type |-> "None"]

Init ==
  /\ input \in Inputs
  /\ parser = "none"
  /\ result = Error
  /\ pc = "start"
  /\ tree = NoTree
  /\ natural = SizeOf(0, 0)
  /\ allocated = SizeOf(0, 0)
  /\ ctx = DefaultContext
  /\ calls = <<>>
  /\ drawer = <<>>
  /\ runs = <<>>

Parse(name, r) ==
  /\ pc = "start"
  /\ parser' = name
  /\ result' = r
  /\ pc' = "parsed"
  /\ UNCHANGED <<input, drawVars>>

ParseElement == Parse("element", element(input))

ParseSubCircuit == Parse("sub_circuit", sub_circuit(input))

ParseTwoport == Parse("twoport", twoport(input))

ParseDocument == Parse("document", document(input))

ParseChain == Parse("chain", chain(input))

ParseSectionKind == Parse("section_kind", section_kind(input))

ParseSections == Parse("sections", document_document(input))

\* the circuit of the document parsed, if it is one
ParsedCircuit ==
  IF parser = "document" /\ result.st = "Ok" /\ result.val.doc = "Circuit"
    THEN result.val.circuit
    ELSE NoTree

\* circuit.layout_size() of the document's circuit
Measure ==
  /\ pc = "parsed"
  /\ ParsedCircuit # NoTree
  /\ tree' = ParsedCircuit
  /\ natural' = layout_size(ParsedCircuit)
  /\ pc' = "measured"
  /\ UNCHANGED <<parseVars, allocated, ctx, calls, drawer, runs>>

\* a placement that leaves the caller's context where the last child was drawn
DrawMovingContext(size, cx) ==
  LET events == SubCircuitDraw(tree, size, cx, <<>>)
  IN  /\ calls' = SelectSeq(events, IsCall)
      /\ drawer' = drawer \o SelectSeq(events, IsPrimitive)
      /\ runs' = Append(runs, SelectSeq(events, IsPrimitive))
      /\ allocated' = size
      /\ ctx' = calls'[Len(calls')].ctx

\* circuit.draw(size, cx, &mut drawer): size and cx are passed by value, the
\* drawer receives the primitives
Draw(size, cx) ==
  LET events == SubCircuitDraw(tree, size, cx, <<>>)
  IN  /\ calls' = SelectSeq(events, IsCall)
      /\ drawer' = drawer \o SelectSeq(events, IsPrimitive)
      /\ runs' = Append(runs, SelectSeq(events, IsPrimitive))
      /\ allocated' = size
      /\ ctx' = cx

Place ==
  /\ pc = "measured"
  /\ \E d \in {0, MaxStretch}, o \in Origins, r \in BOOLEAN :
       Draw(SizeOf(natural.w + d, natural.h + d), ContextOf(o, r))
  /\ pc' = "placed"
  /\ UNCHANGED <<parseVars, tree, natural>>

\* the same tree placed once more with the size and the context the caller holds
PlaceAgain ==
  /\ pc = "placed"
  /\ Len(runs) = 1
  /\ Draw(allocated, ctx)
  /\ UNCHANGED <<parseVars, pc, tree, natural>>

\* the twoport of the document parsed, if it is one
ParsedTwoport ==
  IF parser = "document" /\ result.st = "Ok" /\ result.val.doc = "Twoport"
    THEN result.val.twoport
    ELSE NoTree

\* document.draw(size, ctx, &mut drawer) of a Document::Twoport, with its
\* layout_size or that stretched, and Context::default()
PlaceTwoport ==
  /\ pc = "parsed"
  /\ ParsedTwoport # NoTree
  /\ \E d \in {0, MaxStretch}, swapped \in BOOLEAN :
       LET natural_size == TwoportLayoutSize(ParsedTwoport, swapped)
           size == SizeOf(natural_size.w + d, natural_size.h + d)
           cx == DefaultContext
           events == TwoportDraw(ParsedTwoport, swapped, size, cx)
       IN  /\ allocated' = size
           /\ ctx' = cx
           /\ calls' = SelectSeq(events, IsCall)
           /\ runs' = Append(runs, SelectSeq(events, IsPrimitive))
           /\ drawer' = drawer \o SelectSeq(events, IsPrimitive)
           /\ natural' = natural_size
  /\ pc' = "drawn"
  /\ UNCHANGED <<parseVars, tree>>

\* how far a caller moves the origin of a context
Moves == {PositionOf(4, -9)}

MovedBy(cx, m) ==
  ContextOf(PositionOf(cx.position.x + m.x, cx.position.y + m.y), cx.rotate)

\* the same tree placed once more with the same size and a context whose
\* origin is moved; the drawer receives the primitives after the first run's
PlaceMoved ==
  /\ pc = "placed"
  /\ Len(runs) = 1
  /\ \E m \in Moves :
       /\ ctx' = MovedBy(ctx, m)
       /\ drawer' = drawer \o SelectSeq(SubCircuitDraw(tree, allocated, ctx', <<>>),
                                       IsPrimitive)
  /\ pc' = "moved"
  /\ UNCHANGED <<parseVars, tree, natural, allocated, calls, runs>>

\* the same twoport drawn once more with the same size and a context whose
\* origin is moved, the links asking for the sizes they asked for before
PlaceTwoportMoved ==
  /\ pc = "drawn"
  /\ \E m \in Moves, swapped \in BOOLEAN :
       /\ natural = TwoportLayoutSize(ParsedTwoport, swapped)
       /\ ctx' = MovedBy(ctx, m)
       /\ drawer' = drawer \o SelectSeq(TwoportDraw(ParsedTwoport, swapped, allocated, ctx'),
                                       IsPrimitive)
  /\ pc' = "moved"
  /\ UNCHANGED <<parseVars, tree, natural, allocated, calls, runs>>

Next ==
  \/ ParseElement
  \/ ParseSubCircuit
  \/ ParseTwoport
  \/ ParseDocument
  \/ ParseChain
  \/ ParseSectionKind
  \/ ParseSections
  \/ Measure
  \/ Place
  \/ PlaceAgain
  \/ PlaceTwoport
  \/ PlaceMoved
  \/ PlaceTwoportMoved

Spec == Init /\ [][Next]_vars

-----------------------------------------------------------------------------
(* Context alone: a context of the caller's is translated and rotated, up  *)
(* to MaxSteps times; calls records each operation with its arguments and  *)
(* the context it was applied to.                                          *)

MaxSteps == 2

Shifts == {-3, 0, 5}

InitContext ==
  /\ input = <<>>
  /\ parser = "none"
  /\ result = Error
  /\ pc = "context"
  /\ tree = NoTree
  /\ natural = SizeOf(0, 0)
  /\ allocated = SizeOf(0, 0)
  /\ ctx \in {ContextOf(o, r) : o \in Origins, r \in BOOLEAN}
  /\ calls = <<>>
  /\ drawer = <<>>
  /\ runs = <<>>

\* ctx.translate(x, y)
Translate ==
  /\ pc = "context"
  /\ Len(calls) < MaxSteps
  /\ \E x \in Shifts, y \in Shifts :
       /\ ctx' = translate(ctx, x, y)
       /\ calls' = Append(calls, [op |-> "translate", x |-> x, y |-> y, ctx |-> ctx])
  /\ UNCHANGED <<parseVars, pc, tree, natural, allocated, drawer, runs>>

\* ctx.rotate()
Rotate ==
  /\ pc = "context"
  /\ Len(calls) < MaxSteps
  /\ ctx' = rotate(ctx)
  /\ calls' = Append(calls, [op |-> "rotate", ctx |-> ctx])
  /\ UNCHANGED <<parseVars, pc, tree, natural, allocated, drawer, runs>>

NextContext == Translate \/ Rotate

SpecContext == InitContext /\ [][NextContext]_vars

-----------------------------------------------------------------------------
(* What the properties below speak of                                      *)

\* every text of a subcircuit of the sizes above, whichever leaf it starts at
SubTextSet ==
  UNION {SubTexts(n, k) : n \in 1..MaxLeaves, k \in 1..Len(LeafTexts)}

\* the same with redundant parentheses around them
WrappedTextSet ==
  UNION {{Wrapped(x, w) : w \in 0..(MaxLeaves - Leaves(x))} : x \in SubTextSet}

\* the tree of a subcircuit text
TreeOf(x) == sub_circuit(x).val

RECURSIVE NoSingle(_)
NoSingle(c) ==
  \/ c.type = "Element"
  \/ /\ c.type = "Group"
     /\ c.group.type \in {"Series", "Parallel"}
     /\ NoSingle(c.group.left)
     /\ NoSingle(c.group.right)

RECURSIVE Subtrees(_)
Subtrees(c) ==
  {c} \cup (IF c.type = "Group" /\ c.group.type \in {"Series", "Parallel"}
              THEN Subtrees(c.group.left) \cup Subtrees(c.group.right)
              ELSE {})

\* the circuits a parser's value holds
CircuitsOf(name, val) ==
  CASE name = "sub_circuit" -> {val}
    [] name = "twoport" -> {val.links[j].circuit : j \in 1..Len(val.links)}
    [] name = "document" ->
         IF val.doc = "Circuit" THEN {val.circuit}
         ELSE {val.twoport.links[j].circuit : j \in 1..Len(val.twoport.links)}
    [] OTHER -> {}

Parsed(name) == pc = "parsed" /\ parser = name

\* the number of parentheses open before position j of x
RECURSIVE DepthAt(_, _)
DepthAt(x, j) ==
  IF j <= 1 THEN 0
  ELSE DepthAt(x, j - 1) + (IF x[j - 1] = "(" THEN 1 ELSE IF x[j - 1] = ")" THEN -1 ELSE 0)

\* the positions outside every parenthesis where the separator sep starts
TopSeparators(x, sep) ==
  {j \in 1..(Len(x) - Len(sep) + 1) : SubSeq(x, j, j + Len(sep) - 1) = sep /\ DepthAt(x, j) = 0}

\* x cut at the positions cuts (a set), each separator of length n dropped
RECURSIVE CutAt(_, _, _, _)
CutAt(x, cuts, n, from) ==
  LET later == {j \in cuts : j >= from}
  IN  IF later = {} THEN <<SubSeq(x, from, Len(x))>>
      ELSE LET j == CHOOSE m \in later : \A o \in later : m <= o
           IN  <<SubSeq(x, from, j - 1)>> \o CutAt(x, cuts, n, j + n)

Operands(x, sep) == CutAt(x, TopSeparators(x, sep), Len(sep), 1)

\* the text between the outermost parentheses of x, if x is so delimited
IsDelimited(x) == Len(x) >= 2 /\ x[1] = "(" /\ x[Len(x)] = ")"

Inner(x) == SubSeq(x, 2, Len(x) - 1)

AllIn(pieces, S) == \A j \in 1..Len(pieces) : pieces[j] \in S

RECURSIVE FoldRight(_, _)
FoldRight(kind, trees) ==
  IF Len(trees) = 1 THEN trees[1]
  ELSE SubGroup([type |-> kind, left |-> Head(trees), right |-> FoldRight(kind, Tail(trees))])

TreesOf(pieces) == [j \in 1..Len(pieces) |-> TreeOf(pieces[j])]

\* the draw call of the child at side of the call c, in the last placement
ChildCalls(c, side) ==
  {d \in {calls[j] : j \in 1..Len(calls)} : d.path = Append(c.path, side)}

CallsOf(kind) ==
  {c \in {calls[j] : j \in 1..Len(calls)} :
     c.circuit.type = "Group" /\ c.circuit.group.type = kind}

-----------------------------------------------------------------------------
(* C1: at every Series node placed, the two children's allocated widths    *)
(* add up to the node's allocated width, and at every Parallel node the    *)
(* two children's allocated heights add up to the node's allocated height. *)
(* The code divides for each child and drops both remainders.              *)

C1_AllocationConserved ==
  /\ \A c \in CallsOf("Series") :
       \A l \in ChildCalls(c, "left"), r \in ChildCalls(c, "right") :
         l.size.w + r.size.w = c.size.w
  /\ \A c \in CallsOf("Parallel") :
       \A t \in ChildCalls(c, "left"), b \in ChildCalls(c, "right") :
         t.size.h + b.size.h = c.size.h

(* C2: no tree a successful sub_circuit, twoport or circuit::document      *)
(* parse returns holds a SubCircuitGroup::Single at any depth.             *)

C2_NoSingleInParsedTrees ==
  (pc = "parsed" /\ result.st = "Ok") =>
    \A c \in CircuitsOf(parser, result.val) : NoSingle(c)

C2_Witness ==
  /\ Parsed("sub_circuit")
  /\ result.st = "Ok"
  /\ input \in WrappedInputs
  /\ result.val.type = "Group"
  /\ result.val.group.left.type = "Group"

C3_IsSeriesOfParallel(x) ==
  /\ IsDelimited(x)
  /\ Len(Operands(Inner(x), <<"+">>)) = 2
  /\ Operands(Inner(x), <<"+">>)[1] \in SubTextSet
  /\ Len(Operands(Operands(Inner(x), <<"+">>)[2], <<"|", "|">>)) = 2
  /\ AllIn(Operands(Operands(Inner(x), <<"+">>)[2], <<"|", "|">>), SubTextSet)

C3_IsParallelOfSeries(x) ==
  /\ IsDelimited(x)
  /\ Len(Operands(Inner(x), <<"|", "|">>)) = 2
  /\ Operands(Inner(x), <<"|", "|">>)[2] \in SubTextSet
  /\ IsDelimited(Operands(Inner(x), <<"|", "|">>)[1])
  /\ Len(Operands(Inner(Operands(Inner(x), <<"|", "|">>)[1]), <<"+">>)) = 2
  /\ AllIn(Operands(Inner(Operands(Inner(x), <<"|", "|">>)[1]), <<"+">>), SubTextSet)

(* C3: inside parentheses || binds tighter than +: (A+B||C) parses to      *)
(* Series(A, Parallel(B, C)), as (A+(B||C)) does, and ((A+B)||C) parses to *)
(* Parallel(Series(A, B), C), for all subcircuit texts A, B and C.         *)

C3_ParallelBindsTighter ==
  Parsed("sub_circuit") =>
    /\ C3_IsSeriesOfParallel(input) =>
         LET A  == Operands(Inner(input), <<"+">>)[1]
             BC == Operands(Operands(Inner(input), <<"+">>)[2], <<"|", "|">>)
         IN  /\ result = Ok(<<>>, SubGroup(Series(TreeOf(A),
                                SubGroup(Parallel(TreeOf(BC[1]), TreeOf(BC[2]))))))
             /\ result = sub_circuit(<<"(">> \o A \o <<"+", "(">> \o BC[1] \o
                                     <<"|", "|">> \o BC[2] \o <<")", ")">>)
    /\ C3_IsParallelOfSeries(input) =>
         LET AB == Operands(Inner(Operands(Inner(input), <<"|", "|">>)[1]), <<"+">>)
             C  == Operands(Inner(input), <<"|", "|">>)[2]
         IN  result = Ok(<<>>, SubGroup(Parallel(
                                SubGroup(Series(TreeOf(AB[1]), TreeOf(AB[2]))), TreeOf(C))))

C3_Witness ==
  /\ Parsed("sub_circuit")
  /\ C3_IsSeriesOfParallel(input)
  /\ Operands(Inner(input), <<"+">>)[1] \notin {Leaf(k) : k \in 1..Len(LeafTexts)}
  /\ result.st = "Ok"

C4_IsChain(x, sep) ==
  /\ IsDelimited(x)
  /\ Len(Operands(Inner(x), sep)) >= 2
  /\ AllIn(Operands(Inner(x), sep), SubTextSet)

(* C4: a chain of one operator inside a group is folded to the right:      *)
(* (A+B+C) parses to Series(A, Series(B, C)) and (A||B||C) to              *)
(* Parallel(A, Parallel(B, C)), for any number of operands.                *)

C4_ChainsFoldRight ==
  Parsed("sub_circuit") =>
    /\ C4_IsChain(input, <<"+">>) =>
         result = Ok(<<>>, FoldRight("Series", TreesOf(Operands(Inner(input), <<"+">>))))
    /\ C4_IsChain(input, <<"|", "|">>) =>
         result = Ok(<<>>, FoldRight("Parallel", TreesOf(Operands(Inner(input), <<"|", "|">>))))

C4_Witness ==
  /\ Parsed("sub_circuit")
  /\ C4_IsChain(input, <<"|", "|">>)
  /\ Len(Operands(Inner(input), <<"|", "|">>)) = MaxLeaves
  /\ result.st = "Ok"
  /\ result.val.group.right.group.right.type = "Group"

(* C5: a subcircuit text X in parentheses parses to the tree X parses to,  *)
(* also when the parentheses are nested several times.                     *)

C5_ParenthesesAreDropped ==
  (Parsed("sub_circuit") /\ IsDelimited(input) /\ Inner(input) \in WrappedTextSet) =>
    result = sub_circuit(Inner(input))

C5_Witness ==
  /\ Parsed("sub_circuit")
  /\ IsDelimited(input)
  /\ IsDelimited(Inner(input))
  /\ Inner(Inner(input)) \in SubTextSet
  /\ Inner(Inner(input)) \notin {Leaf(k) : k \in 1..Len(LeafTexts)}
  /\ result = Ok(<<>>, TreeOf(Inner(Inner(input))))

RECURSIVE Sorted(_)
Sorted(S) ==
  IF S = {} THEN <<>>
  ELSE LET m == CHOOSE a \in S : \A b \in S : a <= b
       IN  <<m>> \o Sorted(S \ {m})

\* where the links of x start
LinkStarts(x) == Sorted(TopSeparators(x, <<"-">>) \cup TopSeparators(x, <<"|">>))

LinkText(x, n) ==
  SubSeq(x, LinkStarts(x)[n] + 1,
         IF n = Len(LinkStarts(x)) THEN Len(x) ELSE LinkStarts(x)[n + 1] - 1)

C6_IsLinkSequence(x) ==
  /\ LinkStarts(x) # <<>>
  /\ LinkStarts(x)[1] = 1
  /\ \A n \in 1..Len(LinkStarts(x)) : LinkText(x, n) \in WrappedTextSet

C6_ExpectedLinks(x) ==
  [n \in 1..Len(LinkStarts(x)) |->
     TwoportLinkOf(IF x[LinkStarts(x)[n]] = "-" THEN "Series" ELSE "Shunt",
                   TreeOf(LinkText(x, n)))]

(* C6: the twoport parser returns one link for each subcircuit prefixed   *)
(* with - or |, in the order of the text, tagged Series for - and Shunt    *)
(* for |; |O-((L1+R1)||C1)|O gives exactly three links and leaves no input. *)

C6_OneLinkPerPrefixedSubCircuit ==
  Parsed("twoport") =>
    /\ C6_IsLinkSequence(input) =>
         result = Ok(<<>>, [links |-> C6_ExpectedLinks(input)])
    /\ input = TestTwoportText =>
         result = Ok(<<>>, [links |-> <<
           TwoportLinkOf("Shunt", SubElement(Open)),
           TwoportLinkOf("Series", SubGroup(Parallel(
             SubGroup(Series(SubElement(ElementOf("L", <<"1">>)),
                             SubElement(ElementOf("R", <<"1">>)))),
             SubElement(ElementOf("C", <<"1">>))))),
           TwoportLinkOf("Shunt", SubElement(Open))>>])

C6_Witness ==
  /\ Parsed("twoport")
  /\ C6_IsLinkSequence(input)
  /\ result.st = "Ok"
  /\ result.rest = <<>>
  /\ Len(result.val.links) = 3
  /\ result.val.links[1].link = "Shunt"
  /\ result.val.links[2].link = "Series"
  /\ result.val.links[2].circuit.type = "Group"
  /\ result.val.links[3].link = "Shunt"

\* position k of x lies inside the parenthesis opened at position o
InsideGroup(x, o, k) ==
  /\ k > o
  /\ \A m \in (o + 1)..k : DepthAt(x, m) > DepthAt(x, o)

HasShuntInShuntSubChain(x) ==
  \E j \in 1..(Len(x) - 1) :
    /\ x[j] = "|"
    /\ x[j + 1] = "("
    /\ \E k \in (j + 2)..Len(x) : x[k] = "|" /\ InsideGroup(x, j + 1, k)

(* C7: a chain text in which a sub-chain inside a shunt link holds another *)
(* shunt link is rejected by twoport.rs's chain parser with the hard       *)
(* Failure "shunt within sub-chains is not supported"; the parse neither   *)
(* ends in a recoverable error nor succeeds on a prefix of the text.       *)
(* The peek that detects the inner shunt swallows the Failure of a shunt   *)
(* nested one level deeper.                                                *)

C7_NestedShuntIsHardFailure ==
  (Parsed("chain") /\ input \in ChainInputs \cup TestTexts /\ HasShuntInShuntSubChain(input)) =>
    result = Failure(ShuntInSubChain)

(* C8: at any depth, the natural size of Series(A, B) is the sum of the    *)
(* widths of A and B by the larger of their heights, and the natural size  *)
(* of Parallel(A, B) the larger of their widths by the sum of the heights. *)

C8_NaturalSizeOfGroups ==
  (pc \in {"measured", "placed"}) =>
    /\ natural = layout_size(tree)
    /\ \A c \in Subtrees(tree) :
         c.type = "Group" =>
           LET a == layout_size(c.group.left)
               b == layout_size(c.group.right)
           IN  /\ c.group.type = "Series" =>
                    /\ layout_size(c).w = a.w + b.w
                    /\ layout_size(c).h = IF a.h >= b.h THEN a.h ELSE b.h
               /\ c.group.type = "Parallel" =>
                    /\ layout_size(c).w = IF a.w >= b.w THEN a.w ELSE b.w
                    /\ layout_size(c).h = a.h + b.h

C8_Witness ==
  /\ pc = "measured"
  /\ tree.type = "Group"
  /\ tree.group.type = "Series"
  /\ tree.group.left.type = "Group"
  /\ tree.group.left.group.type = "Parallel"
  /\ tree.group.right.type = "Element"
  /\ natural = SizeOf(2 * ELEMENT_SIZE.w, 2 * ELEMENT_SIZE.h)

(* C9: placing the same tree twice with the same allocated size and the    *)
(* same context emits the same primitives with the same arguments.         *)

Shifted(cx, d) ==
  ContextOf(IF cx.rotate
              THEN PositionOf(cx.position.x, cx.position.y + d)
              ELSE PositionOf(cx.position.x + d, cx.position.y),
            cx.rotate)

(* C10: a Series node places its left child at its own origin moved by     *)
(* minus half its allocated width plus half the left child's allocated     *)
(* width, and its right child at its origin moved by half its allocated    *)
(* width minus half the right child's allocated width, along its own axis  *)
(* (x when not rotated, y when rotated), the halves truncated.             *)

C10_SeriesChildOrigins ==
  \A c \in CallsOf("Series") :
    \A l \in ChildCalls(c, "left"), r \in ChildCalls(c, "right") :
      /\ l.ctx = Shifted(c.ctx, Div(l.size.w, 2) - Div(c.size.w, 2))
      /\ r.ctx = Shifted(c.ctx, Div(c.size.w, 2) - Div(r.size.w, 2))

C10_Witness ==
  /\ pc = "placed"
  /\ ctx.rotate
  /\ ctx.position # PositionOf(0, 0)
  /\ \E c \in CallsOf("Series") :
       \E l \in ChildCalls(c, "left"), r \in ChildCalls(c, "right") :
         /\ l.size.w # r.size.w
         /\ l.size.w + r.size.w # c.size.w
         /\ l.ctx.position.y < c.ctx.position.y
         /\ r.ctx.position.y > c.ctx.position.y

(* C10 as first stated: the left child's origin is the node's origin moved *)
(* by minus half the left child's allocated width, the right child's by    *)
(* plus half the right child's allocated width, along the node's own axis. *)

C10_OriginsByOwnHalfWidths ==
  \A c \in CallsOf("Series") :
    \A l \in ChildCalls(c, "left"), r \in ChildCalls(c, "right") :
      /\ l.ctx = Shifted(c.ctx, -Div(l.size.w, 2))
      /\ r.ctx = Shifted(c.ctx, Div(r.size.w, 2))

(* C11: a Series node placed with any allocated size places each of its    *)
(* two children with an allocated height equal to its own allocated        *)
(* height.  The code gives both children the larger of their natural       *)
(* heights and never reads the allocated height.                           *)

C11_SeriesChildrenKeepHeight ==
  \A c \in CallsOf("Series") :
    \A l \in ChildCalls(c, "left"), r \in ChildCalls(c, "right") :
      /\ l.size.h = c.size.h
      /\ r.size.h = c.size.h

\* the links of the twoport drawn
DrawnLinks == ParsedTwoport.links

\* what the arm of link i handed to the Drawer itself, in the last run
LinkPrimitives(i) ==
  {e \in {runs[Len(runs)][j] : j \in 1..Len(runs[Len(runs)])} :
     "link" \in DOMAIN e /\ e.link = i}

\* the call that drew the circuit of link i
LinkCalls(i) == {c \in {calls[j] : j \in 1..Len(calls)} : c.path = LinkPath(i)}

\* where along the chain the circuit of link i was drawn
LinkCentre(i) ==
  LET c == CHOOSE c \in LinkCalls(i) : TRUE
  IN  IF ctx.rotate THEN c.ctx.position.y - ctx.position.y
                    ELSE c.ctx.position.x - ctx.position.x

top_line == Div(-allocated.h, 2)

bottom_line == Div(allocated.h, 2)

\* link i emitted a wire along the line y that ends (left) or starts (right)
\* at its centre
HasRailWire(i, side, y) ==
  \E e \in LinkPrimitives(i) :
    /\ e.ev = "wire"
    /\ e.a.y = y
    /\ e.b.y = y
    /\ IF side = "left" THEN e.b.x = LinkCentre(i) /\ e.a.x < e.b.x
                        ELSE e.a.x = LinkCentre(i) /\ e.a.x < e.b.x

LinkJunctions(i) == {e \in LinkPrimitives(i) : e.ev = "junction"}

(* C12: in a chain of n links a Shunt link at index i (from 0) emits its   *)
(* top-rail and bottom-rail wires to the left exactly if i > 0, those to   *)
(* the right exactly if i < n-1, and its two junctions exactly if both     *)
(* neighbours exist; the shunt of a one-link chain emits no wire.          *)

C12_ShuntRailsFollowNeighbours ==
  pc = "drawn" =>
    \A i \in 1..Len(DrawnLinks) :
      DrawnLinks[i].link = "Shunt" =>
        /\ HasRailWire(i, "left", top_line) <=> i > 1
        /\ HasRailWire(i, "left", bottom_line) <=> i > 1
        /\ HasRailWire(i, "right", top_line) <=> i < Len(DrawnLinks)
        /\ HasRailWire(i, "right", bottom_line) <=> i < Len(DrawnLinks)
        /\ IF i > 1 /\ i < Len(DrawnLinks)
             THEN LinkJunctions(i) =
                    {LinkJunction(i, PositionOf(LinkCentre(i), top_line)),
                     LinkJunction(i, PositionOf(LinkCentre(i), bottom_line))}
             ELSE LinkJunctions(i) = {}
        /\ Cardinality({e \in LinkPrimitives(i) : e.ev = "wire"}) =
             (IF i > 1 THEN 2 ELSE 0) + (IF i < Len(DrawnLinks) THEN 2 ELSE 0)

C12_Witness ==
  /\ pc = "drawn"
  /\ Len(DrawnLinks) = 3
  /\ \A i \in 1..3 : DrawnLinks[i].link = "Shunt"
  /\ DrawnLinks[2].circuit.type = "Group"
  /\ Cardinality(LinkJunctions(2)) = 2
  /\ LinkJunctions(1) = {}
  /\ Cardinality(LinkPrimitives(3)) = 2

\* the number of primitives a subcircuit hands to the Drawer
RECURSIVE PrimCount(_)
PrimCount(c) ==
  IF c.type = "Element" THEN 1
  ELSE PrimCount(c.group.left) + PrimCount(c.group.right)
       + (IF c.group.type = "Parallel" THEN 6 ELSE 0)

\* the Parallel nodes of c, each with its path and with the place in the run
\* of the first primitive of its own, c's first primitive being at start
RECURSIVE ParallelNodes(_, _, _)
ParallelNodes(c, path, start) ==
  IF c.type = "Element" THEN {}
  ELSE ParallelNodes(c.group.left, Append(path, "left"), start)
       \cup ParallelNodes(c.group.right, Append(path, "right"),
                          start + PrimCount(c.group.left))
       \cup (IF c.group.type = "Parallel"
               THEN {[path |-> path,
                      at |-> start + PrimCount(c.group.left) + PrimCount(c.group.right)]}
               ELSE {})

LastRun == runs[Len(runs)]

CallAt(path) == CHOOSE c \in {calls[j] : j \in 1..Len(calls)} : c.path = path

\* a position's coordinate along the axis of a context, and across it
Along(cx, position) == IF cx.rotate THEN position.y ELSE position.x

Across(cx, position) == IF cx.rotate THEN position.x ELSE position.y

\* e is a wire from the line of the top child's origin to the line of the
\* bottom child's, at the distance d from the node's origin along its axis
IsRail(e, n, d) ==
  /\ e.ev = "wire"
  /\ Along(CallAt(n.path).ctx, e.a) = Along(CallAt(n.path).ctx, CallAt(n.path).ctx.position) + d
  /\ Along(CallAt(n.path).ctx, e.b) = Along(CallAt(n.path).ctx, e.a)
  /\ Across(CallAt(n.path).ctx, e.a) =
       Across(CallAt(n.path).ctx, CallAt(Append(n.path, "left")).ctx.position)
  /\ Across(CallAt(n.path).ctx, e.b) =
       Across(CallAt(n.path).ctx, CallAt(Append(n.path, "right")).ctx.position)

\* the six primitives of the node n's own
OwnPrimitives(n) == SubSeq(LastRun, n.at, n.at + 5)

RailsAndJunctions(n) ==
  /\ Cardinality({k \in 1..6 : OwnPrimitives(n)[k].ev = "junction"}) = 2
  /\ Cardinality({k \in 1..6 : \E d \in {Div(-ParallelWidth(CallAt(n.path).circuit.group), 2),
                                         Div(ParallelWidth(CallAt(n.path).circuit.group), 2)} :
                                  IsRail(OwnPrimitives(n)[k], n, d)}) = 2
  /\ IsRail(OwnPrimitives(n)[1], n, Div(-ParallelWidth(CallAt(n.path).circuit.group), 2))
  /\ IsRail(OwnPrimitives(n)[2], n, Div(ParallelWidth(CallAt(n.path).circuit.group), 2))
  /\ OwnPrimitives(n)[3].ev = "junction"
  /\ OwnPrimitives(n)[4].ev = "junction"
  /\ \A k \in 1..2 :
       Along(CallAt(n.path).ctx, OwnPrimitives(n)[k + 2].position) =
         Along(CallAt(n.path).ctx, OwnPrimitives(n)[k].a)

(* C13: a Parallel(top, bottom) node placed emits exactly two rail wires,  *)
(* left and right, each running from the line of the top child's origin to *)
(* the line of the bottom child's origin, and exactly one junction on each *)
(* rail, at the height of the node's own origin: between the two ends, and *)
(* halfway only when the two children get the same allocated height.       *)

C13_JunctionsOnOriginLine ==
  pc = "placed" =>
    \A n \in ParallelNodes(tree, <<>>, 1) :
      /\ RailsAndJunctions(n)
      /\ \A k \in 1..2 :
           /\ Across(CallAt(n.path).ctx, OwnPrimitives(n)[k + 2].position) =
                Across(CallAt(n.path).ctx, CallAt(n.path).ctx.position)
           /\ Across(CallAt(n.path).ctx, OwnPrimitives(n)[k].a) <=
                Across(CallAt(n.path).ctx, OwnPrimitives(n)[k + 2].position)
           /\ Across(CallAt(n.path).ctx, OwnPrimitives(n)[k + 2].position) <=
                Across(CallAt(n.path).ctx, OwnPrimitives(n)[k].b)
           /\ (CallAt(Append(n.path, "left")).size.h = CallAt(Append(n.path, "right")).size.h) =>
                2 * Across(CallAt(n.path).ctx, OwnPrimitives(n)[k + 2].position) =
                  Across(CallAt(n.path).ctx, OwnPrimitives(n)[k].a)
                  + Across(CallAt(n.path).ctx, OwnPrimitives(n)[k].b)

C13_Witness ==
  /\ pc = "placed"
  /\ ctx.rotate
  /\ \E n \in ParallelNodes(tree, <<>>, 1) :
       /\ n.path # <<>>
       /\ CallAt(Append(n.path, "left")).size.h < CallAt(Append(n.path, "right")).size.h
       /\ RailsAndJunctions(n)

(* C13 as first stated: each junction lies at the midpoint of its rail     *)
(* wire, for any natural heights of top and bottom.                        *)

C13_JunctionsAtRailMidpoints ==
  pc = "placed" =>
    \A n \in ParallelNodes(tree, <<>>, 1) :
      /\ RailsAndJunctions(n)
      /\ \A k \in 1..2 :
           2 * Across(CallAt(n.path).ctx, OwnPrimitives(n)[k + 2].position) =
             Across(CallAt(n.path).ctx, OwnPrimitives(n)[k].a)
             + Across(CallAt(n.path).ctx, OwnPrimitives(n)[k].b)

\* the paths of the Element leaves of c, from left to right
RECURSIVE LeafPaths(_, _)
LeafPaths(c, path) ==
  IF c.type = "Element" THEN <<path>>
  ELSE LeafPaths(c.group.left, Append(path, "left"))
       \o LeafPaths(c.group.right, Append(path, "right"))

IsElementPrimitive(e) == e.ev \notin {"wire", "junction"}

ElementPrimitives == SelectSeq(LastRun, IsElementPrimitive)

(* C14: placing a subcircuit emits exactly one element primitive for each  *)
(* Element leaf of the tree, in the order of the leaves from left to       *)
(* right, each with the leaf's label, the origin of the leaf's context,    *)
(* the leaf's allocated size and rotated flag, and of the leaf's kind:     *)
(* R resistor, C capacitor, L inductor, V voltage source, I current        *)
(* source, O open, and Z through the resistor primitive.                   *)

C14_OnePrimitivePerLeaf ==
  pc = "placed" =>
    /\ Len(ElementPrimitives) = Len(LeafPaths(tree, <<>>))
    /\ \A k \in 1..Len(ElementPrimitives) :
         LET leaf == CallAt(LeafPaths(tree, <<>>)[k])
             e    == ElementPrimitives[k]
         IN  /\ e.label = (IF leaf.circuit.element.kind = "Open" THEN <<>>
                           ELSE <<leaf.circuit.element.kind>> \o leaf.circuit.element.id)
             /\ e.position = leaf.ctx.position
             /\ e.size = leaf.size
             /\ e.rotate = leaf.ctx.rotate
             /\ e.ev = (CASE leaf.circuit.element.kind = "R" -> "resistor"
                          [] leaf.circuit.element.kind = "C" -> "capacitor"
                          [] leaf.circuit.element.kind = "L" -> "inductor"
                          [] leaf.circuit.element.kind = "V" -> "voltage_source"
                          [] leaf.circuit.element.kind = "I" -> "current_source"
                          [] leaf.circuit.element.kind = "Open" -> "open"
                          [] leaf.circuit.element.kind = "Z" -> "resistor")

C14_Witness ==
  /\ pc = "placed"
  /\ ctx.rotate
  /\ Len(ElementPrimitives) = 4
  /\ Len(LastRun) = 10
  /\ ElementPrimitives[1].ev = "voltage_source"
  /\ ElementPrimitives[2].ev = "open"
  /\ ElementPrimitives[2].label = <<>>
  /\ ElementPrimitives[3].ev = "resistor"
  /\ ElementPrimitives[3].label = <<"Z", "5">>
  /\ ElementPrimitives[4].ev = "current_source"

\* the letters and digits among the characters of the texts
IsAlphanumeric(c) ==
  c \in {"R", "C", "V", "L", "Z", "I", "O", "q", "t", "w", "o", "p", "r"}
       \cup {"1", "2", "3", "4", "5"}

\* the length of the longest run of letters and digits of x from position j on
RECURSIVE RunFrom(_, _)
RunFrom(x, j) ==
  IF j <= Len(x) /\ IsAlphanumeric(x[j]) THEN 1 + RunFrom(x, j + 1) ELSE 0

(* C15: the element parser takes a tag letter among R, C, V, L, Z, I and   *)
(* the whole longest run of letters and digits after it, returning the     *)
(* element of that kind with the run as identifier (letters allowed) and   *)
(* leaving what follows the run; it takes O as Open; a tag letter with no  *)
(* letter or digit after it is a parse error.                              *)

C15_ElementTakesWholeRun ==
  (Parsed("element") /\ input # <<>>) =>
    /\ (input[1] \in {"R", "C", "V", "L", "Z", "I"} /\ RunFrom(input, 2) >= 1) =>
         result = Ok(SubSeq(input, 2 + RunFrom(input, 2), Len(input)),
                     ElementOf(input[1], SubSeq(input, 2, 1 + RunFrom(input, 2))))
    /\ (input[1] \in {"R", "C", "V", "L", "Z", "I"} /\ RunFrom(input, 2) = 0) =>
         result.st = "Error"
    /\ input[1] = "O" => result = Ok(Tail(input), Open)

C15_Witness ==
  /\ Parsed("element")
  /\ input = <<"Z", "q", "R", "+">>
  /\ result = Ok(<<"+">>, ElementOf("Z", <<"q", "R">>))

(* C16: every element, of any kind and with any identifier, has the same   *)
(* natural size, ELEMENT_SIZE = (200, 60).                                 *)

C16_ElementsShareOneSize ==
  (pc \in {"measured", "placed"}) =>
    /\ tree.type = "Element" => natural = [w |-> 200, h |-> 60]
    /\ \A c \in Subtrees(tree) :
         c.type = "Element" => layout_size(c) = [w |-> 200, h |-> 60]

C16_Witness ==
  /\ pc = "measured"
  /\ tree.type = "Element"
  /\ tree.element.kind = "I"
  /\ Len(tree.element.id) = MaxIdLen
  /\ natural = ELEMENT_SIZE

\* the words of x: its longest runs of characters that are no whitespace
RECURSIVE WordLength(_), Words(_)
WordLength(x) ==
  IF x = <<>> \/ x[1] \in {" ", "\n"} THEN 0 ELSE 1 + WordLength(Tail(x))

Words(x) ==
  IF x = <<>> THEN <<>>
  ELSE IF x[1] \in {" ", "\n"} THEN Words(Tail(x))
  ELSE <<SubSeq(x, 1, WordLength(x))>> \o Words(SubSeq(x, WordLength(x) + 1, Len(x)))

Header == <<"@", "t", "w", "o", "p", "o", "r", "t">>

\* chains of the grammar chain := link+, link := ("-" | "|") subcircuit,
\* subcircuit := element | "(" series_expr ")"
GrammarChains ==
  TwoportInputs \cup {TestTwoportText, <<"-", "Z", "1", "|", "I", "1">>}

(* C17: the document parser accepts every section whose chain follows the  *)
(* grammar in which a link's subcircuit is an element with tag R, C, V, L, *)
(* Z or I, or O, or a parenthesized series/parallel expression: a header   *)
(* @twoport, whitespace and such a chain parse to one section with no      *)
(* input left over.                                                        *)

C17_DocumentAcceptsGrammarChains ==
  (/\ Parsed("sections")
   /\ Len(Words(input)) = 2
   /\ Words(input)[1] = Header
   /\ Words(input)[2] \in GrammarChains) =>
    /\ result.st = "Ok"
    /\ result.rest = <<>>
    /\ Len(result.val.sections) = 1

\* the words are N >= 1 pairs of the header @twoport and a text that
\* twoport::chain takes whole
WellFormedSections(ws) ==
  /\ Len(ws) >= 2
  /\ Len(ws) % 2 = 0
  /\ \A k \in 1..Len(ws) :
       IF k % 2 = 1 THEN ws[k] = Header
       ELSE chain(ws[k]).st = "Ok" /\ chain(ws[k]).rest = <<>>

SectionsOf(ws) ==
  [k \in 1..(Len(ws) \div 2) |-> [section |-> "Twoport", chain |-> chain(ws[2 * k]).val]]

(* C18: document applied to N >= 1 well-formed sections, each @twoport,    *)
(* whitespace and a chain, separated by whitespace, returns exactly N      *)
(* sections in the order of the input, each wrapping the chain of its own  *)
(* section, and leaves no input.                                           *)

C18_DocumentKeepsSections ==
  (Parsed("sections") /\ WellFormedSections(Words(input))) =>
    result = Ok(<<>>, [sections |-> SectionsOf(Words(input))])

C18_Witness ==
  /\ Parsed("sections")
  /\ WellFormedSections(Words(input))
  /\ Len(Words(input)) = 4
  /\ input[1] = "\n"
  /\ input[Len(input)] = " "
  /\ Len(result.val.sections) = 2
  /\ result.val.sections[1] # result.val.sections[2]
  /\ result.val.sections[2].chain = chain(Words(input)[4]).val

(* C19: a section header is accepted only when its kind is exactly         *)
(* twoport: section_kind applied to @ and any other word of letters and    *)
(* digits returns an error, and whenever it returns a kind the word was    *)
(* twoport.                                                                *)

C19_OnlyTwoportIsAKind ==
  Parsed("section_kind") =>
    /\ (/\ Len(input) >= 2
        /\ input[1] = "@"
        /\ RunFrom(input, 2) >= 1
        /\ SubSeq(input, 2, 1 + RunFrom(input, 2)) # Tail(Header)) =>
         result.st \in {"Error", "Failure"}
    /\ result.st = "Ok" =>
         /\ SubSeq(input, 1, 1 + RunFrom(input, 2)) = Header
         /\ result.val = "Twoport"

C19_Witness ==
  /\ Parsed("section_kind")
  /\ Len(input) > Len(Header)
  /\ SubSeq(input, 1, 1 + RunFrom(input, 2)) = Header \o <<"q">>
  /\ result.st = "Error"

\* the chains of what was parsed by twoport::chain or by document::document
ParsedChains ==
  IF Parsed("chain") /\ result.st = "Ok" THEN {result.val}
  ELSE IF Parsed("sections") /\ result.st = "Ok"
    THEN {result.val.sections[k].chain : k \in 1..Len(result.val.sections)}
  ELSE {}

\* every sub-chain of the nodes, at every depth, holds Series nodes only
RECURSIVE SubsHoldOnlySeries(_)
SubsHoldOnlySeries(nodes) ==
  \A k \in 1..Len(nodes) :
    nodes[k].element.kind = "Sub" =>
      /\ \A j \in 1..Len(nodes[k].element.chain) :
           nodes[k].element.chain[j].node = "Series"
      /\ SubsHoldOnlySeries(nodes[k].element.chain)

(* C20: in every chain returned by a successful twoport::chain or document *)
(* parse, every sub-chain holds only Series nodes at every depth, so the   *)
(* unreachable! branch of the visualize example's draw is not reached.     *)

C20_SubChainsAreSeriesOnly ==
  \A c \in ParsedChains : SubsHoldOnlySeries(c) /\ ~DrawReachesUnreachable(c)

C20_Witness ==
  /\ Parsed("sections")
  /\ result.st = "Ok"
  /\ \E k \in 1..Len(result.val.sections) :
       LET nodes == result.val.sections[k].chain
       IN  \E n \in 1..Len(nodes) :
             /\ nodes[n].node = "Shunt"
             /\ nodes[n].element.kind = "Sub"
             /\ Len(nodes[n].element.chain) = 2

\* the depth to which sub-chains are nested in the nodes
RECURSIVE SubDepth(_, _)
SubDepth(nodes, k) ==
  IF k > Len(nodes) THEN 0
  ELSE Max(IF nodes[k].element.kind = "Sub"
             THEN 1 + SubDepth(nodes[k].element.chain, 1)
             ELSE 0,
           SubDepth(nodes, k + 1))

(* C21: in every chain returned by a successful twoport::chain parse,      *)
(* sub-chains are nested at most one level deep: no Sub occurs inside      *)
(* another Sub.                                                            *)

C21_SubChainsNestOnce ==
  (Parsed("chain") /\ result.st = "Ok") => SubDepth(result.val, 1) <= 1

\* the text the element parser took from the input
TakenByElement == SubSeq(input, 1, Len(input) - Len(result.rest))

(* C22: for every element the parser produces, label() is the tag letter   *)
(* followed by the identifier verbatim, so it is the exact text the        *)
(* element was parsed from; Open has the empty label.                      *)

C22_LabelIsTheParsedText ==
  (Parsed("element") /\ result.st = "Ok") =>
    IF result.val.kind = "Open" THEN label(result.val) = <<>>
    ELSE /\ label(result.val) = TakenByElement
         /\ label(result.val) = <<input[1]>> \o result.val.id

C22_Witness ==
  /\ Parsed("element")
  /\ result.st = "Ok"
  /\ result.val.kind = "I"
  /\ Len(result.val.id) = MaxIdLen
  /\ result.rest = <<")">>
  /\ label(result.val) = SubSeq(input, 1, MaxIdLen + 1)

\* the text has no prefix and subcircuit to start with
HasNoPrefix(x) == x = <<>> \/ x[1] \notin {"-", "|"}

(* C23: a chain parse on input that starts with no link (empty input, or   *)
(* input that does not start with - or | followed by a subcircuit) returns *)
(* a parse error, and no chain parser returns a chain with zero links.     *)

C23_NoChainWithoutALink ==
  /\ Parsed("twoport") =>
       /\ (HasNoPrefix(input) \/ sub_circuit(Tail(input)).st # "Ok") =>
            result.st \in {"Error", "Failure"}
       /\ result.st = "Ok" => Len(result.val.links) >= 1
  /\ Parsed("chain") =>
       /\ (HasNoPrefix(input) \/ chain_element(Tail(input)).st # "Ok") =>
            result.st \in {"Error", "Failure"}
       /\ result.st = "Ok" => Len(result.val) >= 1

C23_Witness ==
  /\ Parsed("twoport")
  /\ input = <<"|">>
  /\ result = Error

\* the operation applied last to the context
LastOp == calls[Len(calls)]

(* C24: translate(x, y) adds (x, y) to the position of a context that is   *)
(* not rotated and (y, x) to that of a rotated one, and keeps the rotated  *)
(* flag; rotate() toggles the flag and keeps the position, so rotating     *)
(* twice gives the original context back.                                  *)

C24_TranslateAndRotate ==
  (pc = "context" /\ calls # <<>>) =>
    /\ LastOp.op = "translate" =>
         /\ ctx.rotate = LastOp.ctx.rotate
         /\ ctx.position =
              IF LastOp.ctx.rotate
                THEN [x |-> LastOp.ctx.position.x + LastOp.y,
                      y |-> LastOp.ctx.position.y + LastOp.x]
                ELSE [x |-> LastOp.ctx.position.x + LastOp.x,
                      y |-> LastOp.ctx.position.y + LastOp.y]
    /\ LastOp.op = "rotate" =>
         /\ ctx.rotate = ~LastOp.ctx.rotate
         /\ ctx.position = LastOp.ctx.position
    /\ (Len(calls) >= 2 /\ LastOp.op = "rotate" /\ calls[Len(calls) - 1].op = "rotate") =>
         ctx = calls[Len(calls) - 1].ctx

C24_Witness ==
  /\ pc = "context"
  /\ Len(calls) = 2
  /\ calls[1].op = "rotate"
  /\ ~calls[1].ctx.rotate
  /\ calls[2].op = "translate"
  /\ calls[2].x = -3
  /\ calls[2].y = 5
  /\ ctx = [position |-> [x |-> calls[1].ctx.position.x + 5,
                          y |-> calls[1].ctx.position.y - 3],
            rotate |-> TRUE]

\* the wires link i emitted along the bottom rail over the width given to its
\* circuit, centred where the circuit was drawn
BottomWiresOver(i) ==
  {e \in LinkPrimitives(i) :
     /\ e.ev = "wire"
     /\ e.a = [x |-> LinkCentre(i) - Div(CallAt(LinkPath(i)).size.w, 2), y |-> bottom_line]
     /\ e.b = [x |-> LinkCentre(i) + Div(CallAt(LinkPath(i)).size.w, 2), y |-> bottom_line]}

(* C25: when a chain is placed, the subcircuit of each Series link is      *)
(* placed with an allocated height equal to the chain's full allocated     *)
(* height, and the link emits one wire on the bottom rail spanning its     *)
(* width, from offset - width/2 to offset + width/2.                       *)

C25_SeriesLinkFillsChainHeight ==
  pc = "drawn" =>
    \A i \in 1..Len(DrawnLinks) :
      DrawnLinks[i].link = "Series" =>
        /\ CallAt(LinkPath(i)).size.h = allocated.h
        /\ Cardinality(LinkPrimitives(i)) = 1
        /\ BottomWiresOver(i) = LinkPrimitives(i)

\* where along the node's axis a position lies, from the node's origin
FromOrigin(n, position) ==
  Along(CallAt(n.path).ctx, position)
  - Along(CallAt(n.path).ctx, CallAt(n.path).ctx.position)

(* C26: when a Parallel node is placed with any allocated size, its two    *)
(* stub wires run from each rail out to the edge of the node's allocated   *)
(* box: their outer ends are at the node's origin minus and plus half its  *)
(* allocated width, also when that width is not the node's natural width.  *)

C26_StubsReachAllocatedEdge ==
  pc = "placed" =>
    \A n \in ParallelNodes(tree, <<>>, 1) :
      /\ OwnPrimitives(n)[5].ev = "wire"
      /\ OwnPrimitives(n)[6].ev = "wire"
      /\ OwnPrimitives(n)[5].b = OwnPrimitives(n)[3].position
      /\ OwnPrimitives(n)[6].b = OwnPrimitives(n)[4].position
      /\ FromOrigin(n, OwnPrimitives(n)[5].a) = Div(-CallAt(n.path).size.w, 2)
      /\ FromOrigin(n, OwnPrimitives(n)[6].a) = Div(CallAt(n.path).size.w, 2)

\* every subtree of the circuits the parser returned
ParsedSubtrees ==
  IF pc = "parsed" /\ result.st = "Ok"
    THEN UNION {Subtrees(c) : c \in CircuitsOf(parser, result.val)}
    ELSE {}

(* C27: for every tree the parser can produce, every subtree's natural     *)
(* width and natural height are strictly positive, so the divisors         *)
(* width_requested of the Series arm and height_requested of the Parallel  *)
(* arm are never zero.                                                     *)

C27_NaturalSizesArePositive ==
  \A c \in ParsedSubtrees :
    /\ layout_size(c).w > 0
    /\ layout_size(c).h > 0
    /\ c.type = "Group" =>
         /\ c.group.type \in {"Series", "Parallel"}
         /\ layout_size(c.group.left).w + layout_size(c.group.right).w # 0
         /\ layout_size(c.group.left).h + layout_size(c.group.right).h # 0

C27_Witness ==
  /\ Parsed("sub_circuit")
  /\ \E c \in ParsedSubtrees :
       /\ c.type = "Group"
       /\ c.group.type = "Parallel"
       /\ c.group.left.type = "Group"
       /\ c.group.left.group.type = "Series"
       /\ layout_size(c.group.left).h + layout_size(c.group.right).h = 120

(* C28: when a Series node is placed, its two children abut with no gap    *)
(* and no overlap: the left child's right edge (its origin plus half its   *)
(* allocated width) is the right child's left edge (its origin minus half  *)
(* its allocated width), in every tree placed from a root allocated its    *)
(* natural size.                                                           *)

C28_SeriesChildrenAbut ==
  (pc = "placed" /\ allocated = natural) =>
    \A c \in CallsOf("Series") :
      \A l \in ChildCalls(c, "left"), r \in ChildCalls(c, "right") :
        Along(c.ctx, l.ctx.position) + Div(l.size.w, 2)
          = Along(c.ctx, r.ctx.position) - Div(r.size.w, 2)

\* the primitive e with every position of its own moved by m
MovedPrimitive(e, m) ==
  IF e.ev = "wire"
    THEN [e EXCEPT !.a = [x |-> e.a.x + m.x, y |-> e.a.y + m.y],
                   !.b = [x |-> e.b.x + m.x, y |-> e.b.y + m.y]]
    ELSE [e EXCEPT !.position = [x |-> e.position.x + m.x, y |-> e.position.y + m.y]]

\* what the drawer received in the placement with the moved context
MovedRun == SubSeq(drawer, Len(runs[1]) + 1, Len(drawer))

\* the first run moved by m is what the drawer received in the second
MovedAlike(m) ==
  /\ Len(MovedRun) = Len(runs[1])
  /\ \A k \in 1..Len(MovedRun) : MovedRun[k] = MovedPrimitive(runs[1][k], m)

(* C29: placement is translation-equivariant: placing the same document (a *)
(* subcircuit or a twoport chain) with the same size and a context whose   *)
(* origin is moved by (dx, dy) emits the same sequence of primitives with  *)
(* every position, wire end and junction moved by (dx, dy).                *)

C29_SubCircuitsMoveAlike ==
  (pc = "moved" /\ tree # NoTree) => \E m \in Moves : MovedAlike(m)

\* the box of the draw call d lies inside the box of the draw call c, each box
\* reaching half the call's allocated width and height from the call's origin
BoxInside(d, c) ==
  /\ Along(c.ctx, d.ctx.position) - Div(d.size.w, 2)
       >= Along(c.ctx, c.ctx.position) - Div(c.size.w, 2)
  /\ Along(c.ctx, d.ctx.position) + Div(d.size.w, 2)
       <= Along(c.ctx, c.ctx.position) + Div(c.size.w, 2)
  /\ Across(c.ctx, d.ctx.position) - Div(d.size.h, 2)
       >= Across(c.ctx, c.ctx.position) - Div(c.size.h, 2)
  /\ Across(c.ctx, d.ctx.position) + Div(d.size.h, 2)
       <= Across(c.ctx, c.ctx.position) + Div(c.size.h, 2)

(* C30: when a parsed subcircuit is placed with its root allocated its     *)
(* natural size, at every Series and Parallel node each child's allocated  *)
(* box (the child's origin plus or minus half its allocated width and      *)
(* height) lies inside the node's own allocated box.                       *)

C30_ChildBoxesInsideParent ==
  (pc = "placed" /\ allocated = natural) =>
    \A c \in CallsOf("Series") \cup CallsOf("Parallel") :
      \A d \in ChildCalls(c, "left") \cup ChildCalls(c, "right") : BoxInside(d, c)

=============================================================================
